---- MODULE Spec2Model ----
(***************************************************************************)
(* A model of masof: the double-buffered terminal renderer                 *)
(* (src/src/renderer.rs), the key-combination resolver                     *)
(* (src/src/keyaction.rs) and the line editor (src/src/readline.rs).       *)
(*                                                                         *)
(* Coordinates are 0-based as in the source; a Vec is a sequence, so the   *)
(* cell the source writes as cells[y][x] is cells[y + 1][x + 1] here.      *)
(***************************************************************************)
EXTENDS Integers, Sequences, FiniteSets, TLC

VARIABLES
    vbuf,          \* a VirtualBuffer driven directly (putchar / resize / clear)
    term_size,     \* Renderer.term_size
    config,        \* Renderer.config
    next,          \* Renderer.next
    prev,          \* Renderer.prev
    full_refresh,  \* Renderer.full_refresh
    tty,           \* the terminal behind the command stream: screen, pen, cursor
    out,           \* the command stream queued by the last end()
    map,           \* KeyMap.map
    phase,         \* where the caller of the Renderer is in the frame lifecycle
    draws,         \* draw calls made in the current frame
    pending,       \* a resize event arrived since the last successful end()
    line,          \* a ReadLine: cursor, h_scroll, strval
    session,       \* Main::run of the example: where it is, and the terminal modes
    aborted,       \* the process panicked (index out of bounds, overflow check)
    last           \* the last operation, its arguments and what it returned

vars == <<vbuf, term_size, config, next, prev, full_refresh, tty, out, map,
          phase, draws, pending, line, session, aborted, last>>

bufVars == <<vbuf>>
rendererVars == <<term_size, config, next, prev, full_refresh, tty, out,
                  phase, draws, pending>>
keyVars == <<map>>
editVars == <<line>>
runVars == <<session>>

(***************************************************************************)
(* Bounds of the model.                                                    *)
(***************************************************************************)
\* widest and tallest terminal (and directly driven buffer)
MaxW == 2
MaxH == 2
\* draw calls per frame
MaxDraws == 1
\* bindings in a key map
MaxBindings == 3
\* distinct action values of a key map, ordered 1 < 2 < ...
NumActions == 2

Widths == 1..MaxW
Heights == 1..MaxH

(***************************************************************************)
(* Option<T>                                                               *)
(***************************************************************************)
None == [some |-> FALSE]
Some(v) == [some |-> TRUE, v |-> v]

Min(a, b) == IF a <= b THEN a ELSE b

\* u16 arithmetic: the range of the type
U16 == 65536

(***************************************************************************)
(* Characters and their display width (unicode_width::UnicodeWidthChar).   *)
(* "a" is a narrow letter, "W" a wide (East Asian) character, "z" a        *)
(* zero-width combining mark, "c" a control character (no width).          *)
(***************************************************************************)
Chars == {"a", "W", "z", "c"}

UnicodeWidth(c) ==
    CASE c = "W" -> Some(2)
      [] c = "z" -> Some(0)
      [] c = "c" -> None
      [] OTHER   -> Some(1)

(***************************************************************************)
(* ContentStyle: foreground, background, attributes.                       *)
(***************************************************************************)
DefaultStyle == [fg |-> "None", bg |-> "None", attr |-> {}]
RedStyle == [fg |-> "Red", bg |-> "None", attr |-> {}]
Styles == {DefaultStyle, RedStyle}

(***************************************************************************)
(* CellContent::new and Cell                                               *)
(***************************************************************************)
CellContent_new(c, style) ==
    LET w == UnicodeWidth(c)
    IN  [kind |-> "Content", c |-> c,
         width |-> IF w.some THEN w.v ELSE 1, style |-> style]

WideExtension == [kind |-> "WideExtension"]

Cell_new(c, style) == CellContent_new(c, style)

Blank == Cell_new(" ", DefaultStyle)

IsExt(cell) == cell.kind = "WideExtension"
IsContent(cell) == cell.kind = "Content"

\* the display width a cell records for a character
display_width(c) == CellContent_new(c, DefaultStyle).width

(***************************************************************************)
(* VirtualBuffer                                                           *)
(***************************************************************************)
VirtualBuffer_new(width, height) ==
    [width |-> width, height |-> height,
     cells |-> << <<Blank>> >>, cursor |-> None]

\* Vec::resize: truncate, or extend with copies of fill
VecResize(v, n, fill) ==
    [i \in 1..n |-> IF i <= Len(v) THEN v[i] ELSE fill]

resize(buf, width, height) ==
    IF buf.width = width /\ buf.height = height
    THEN buf
    ELSE LET rows == VecResize(buf.cells, height, <<>>)
         IN  [buf EXCEPT
                !.cells = [i \in 1..Len(rows) |->
                              IF i <= height
                              THEN VecResize(rows[i], width, Blank)
                              ELSE rows[i]],
                !.width = width,
                !.height = height]

\* clear indexes cells[y][x] for y < height, x < width: it panics when the grid
\* is smaller than the recorded dimensions
clearPanics(buf) ==
    \/ buf.height > Len(buf.cells)
    \/ \E y \in 1..Min(buf.height, Len(buf.cells)) : buf.width > Len(buf.cells[y])

clear(buf) ==
    [buf EXCEPT
       !.cursor = None,
       !.cells = [y \in 1..Len(buf.cells) |->
                    [x \in 1..Len(buf.cells[y]) |->
                        IF y <= buf.height /\ x <= buf.width
                        THEN Blank
                        ELSE buf.cells[y][x]]]]

\* putchar: what it returns, the buffer it leaves, and whether it panicked
\* (an index past the end of a row)
putchar(buf, x, y, c, style) ==
    LET cc == CellContent_new(c, style)
    IN  IF cc.width + x > buf.width
        THEN [ret |-> None, buf |-> buf, panic |-> FALSE]
        ELSE IF y >= Len(buf.cells)
        THEN [ret |-> None, buf |-> buf, panic |-> FALSE]
        ELSE IF x >= Len(buf.cells[y + 1])
        THEN [ret |-> None, buf |-> buf, panic |-> TRUE]
        ELSE IF x + cc.width > Len(buf.cells[y + 1])
        THEN [ret |-> None,
              buf |-> [buf EXCEPT !.cells[y + 1][x + 1] = cc],
              panic |-> TRUE]
        ELSE [ret |-> Some(cc.width),
              buf |-> [buf EXCEPT
                         !.cells[y + 1] =
                            [i \in 1..Len(buf.cells[y + 1]) |->
                                IF i = x + 1 THEN cc
                                ELSE IF i > x + 1 /\ i <= x + cc.width
                                     THEN WideExtension
                                     ELSE buf.cells[y + 1][i]]],
              panic |-> FALSE]

(***************************************************************************)
(* Renderer.  A Renderer value is the record of its fields.                *)
(***************************************************************************)
FullScreen == [mode |-> "FullScreen"]
BottomScreen(lines, pos) == [mode |-> "BottomScreen", lines |-> lines, pos |-> pos]

set_bottom_screen(r, min_nr_lines) ==
    [r EXCEPT !.config = BottomScreen(min_nr_lines, None)]

height(r) ==
    IF r.config.mode = "FullScreen"
    THEN r.term_size[2]
    ELSE Min(r.config.lines, r.term_size[2])

\* The anchor row after on_resize's  position.1 += new; position.1 -= old  in
\* u16.  With overflow checks (a debug build) a sum past the type or a
\* difference below 0 panics; without them (a release build) it wraps.
AnchorAfter(row, new_h, old_h, checked) ==
    LET sum == row + new_h
        s16 == sum % U16
        dif == s16 - old_h
    IN  [panic |-> checked /\ (sum >= U16 \/ dif < 0),
         row |-> IF checked /\ sum >= U16 THEN row
                 ELSE IF checked /\ dif < 0 THEN s16
                 ELSE dif % U16]

\* on_resize as it would be if it returned early for an unchanged size
on_resize_same_size_returns(r, x, y, checked) ==
    IF r.term_size = <<x, y>>
    THEN [panic |-> FALSE, r |-> r]
    ELSE LET h == IF r.config.mode = "FullScreen" THEN y ELSE Min(r.config.lines, y)
         IN  [panic |-> FALSE,
              r |-> [r EXCEPT !.term_size = <<x, y>>,
                              !.next = resize(r.next, x, h),
                              !.prev = resize(r.prev, x, h),
                              !.full_refresh = TRUE]]

\* on_resize as it would be if it resized the next buffer alone
on_resize_next_only(r, x, y, checked) ==
    LET h == IF r.config.mode = "FullScreen" THEN y ELSE Min(r.config.lines, y)
    IN  [panic |-> FALSE,
         r |-> [r EXCEPT !.term_size = <<x, y>>,
                         !.next = resize(r.next, x, h),
                         !.full_refresh = TRUE]]

on_resize(r, x, y, checked) ==
    LET prev_term_size == r.term_size
        moved ==
            IF r.config.mode = "BottomScreen" /\ r.config.pos.some
            THEN LET position == r.config.pos.v
                     l == Min(r.config.lines, prev_term_size[2])
                     y0 == Min(prev_term_size[2] - l, position[2])
                 IN  IF y0 # position[2]
                     THEN LET a == AnchorAfter(position[2], y, prev_term_size[2], checked)
                          IN  [panic |-> a.panic,
                               config |-> [r.config EXCEPT
                                             !.pos = Some(<<position[1], a.row>>)]]
                     ELSE [panic |-> FALSE, config |-> r.config]
            ELSE [panic |-> FALSE, config |-> r.config]
        h == IF r.config.mode = "FullScreen" THEN y ELSE Min(r.config.lines, y)
    IN  IF moved.panic
        THEN [panic |-> TRUE,
              r |-> [r EXCEPT !.term_size = <<x, y>>, !.config = moved.config]]
        ELSE [panic |-> FALSE,
              r |-> [r EXCEPT !.term_size = <<x, y>>,
                              !.config = moved.config,
                              !.next = resize(r.next, x, h),
                              !.prev = resize(r.prev, x, h),
                              !.full_refresh = TRUE]]

\* term_on, the backend succeeding: the size and the cursor position are what
\* the terminal reports
term_on(r, size, position, checked) ==
    LET o == on_resize(r, size[1], size[2], checked)
    IN  IF o.panic \/ o.r.config.mode = "FullScreen"
        THEN o
        ELSE [o EXCEPT !.r.config.pos = Some(position)]

RECURSIVE draw_str_from(_, _, _, _, _, _)
draw_str_from(buf, x, y, s, style, i) ==
    IF i > Len(s)
    THEN [x |-> x, buf |-> buf, panic |-> FALSE]
    ELSE LET p == putchar(buf, x, y, s[i], style)
         IN  IF p.panic THEN [x |-> x, buf |-> p.buf, panic |-> TRUE]
             ELSE IF p.ret.some
             THEN draw_str_from(p.buf, x + p.ret.v, y, s, style, i + 1)
             ELSE [x |-> x, buf |-> buf, panic |-> FALSE]

\* draw_str: the width it returns, the Renderer it leaves, whether it panicked
draw_str(r, x, y, s, style) ==
    LET d == draw_str_from(r.next, x, y, s, style, 1)
    IN  [ret |-> d.x - x, r |-> [r EXCEPT !.next = d.buf], panic |-> d.panic]

set_cursor(r, info) == [r EXCEPT !.next.cursor = info]

\* begin as it would be without the call of clear
begin_without_clear(r) == r

begin(r) == [r EXCEPT !.next = clear(r.next)]

\* the commands of the terminal backend (crossterm)
MoveTo(x, y) == [op |-> "MoveTo", x |-> x, y |-> y]
SetBackgroundColor(color) == [op |-> "SetBackgroundColor", color |-> color]
SetForegroundColor(color) == [op |-> "SetForegroundColor", color |-> color]
SetAttributes(attr) == [op |-> "SetAttributes", attr |-> attr]
PrintCmd(c) == [op |-> "Print", c |-> c]
ShowCmd == [op |-> "Show"]
HideCmd == [op |-> "Hide"]

\* top_left as it would be if it took the recorded anchor row as it is
top_left_at_anchor(r) ==
    IF r.config.mode = "FullScreen"
    THEN <<0, 0>>
    ELSE <<0, (IF r.config.pos.some THEN r.config.pos.v ELSE <<0, 0>>)[2]>>

top_left(r) ==
    IF r.config.mode = "FullScreen"
    THEN <<0, 0>>
    ELSE LET position == IF r.config.pos.some THEN r.config.pos.v ELSE <<0, 0>>
             l == Min(r.config.lines, r.term_size[2])
             y == Min(r.term_size[2] - l, position[2])
         IN  <<0, y>>

ColorOrReset(color) == IF color = "None" THEN "Reset" ELSE color

\* the style changes queued before a cell of style `to` when `from` is active
StyleCmds(from, to) ==
    IF from = to THEN <<>>
    ELSE (IF from.bg # to.bg
          THEN <<SetBackgroundColor(ColorOrReset(to.bg))>> ELSE <<>>)
      \o (IF from.fg # to.fg
          THEN <<SetForegroundColor(ColorOrReset(to.fg))>> ELSE <<>>)
      \o (IF from.attr # to.attr THEN <<SetAttributes(to.attr)>> ELSE <<>>)

\* one row, from column x (1-based) on: the commands and the style left active
RECURSIVE PaintCells(_, _, _, _)
PaintCells(row, x, width, style) ==
    IF x > width \/ x > Len(row)
    THEN [cmds |-> <<>>, style |-> style]
    ELSE IF IsContent(row[x])
    THEN LET rest == PaintCells(row, x + 1, width, row[x].style)
         IN  [cmds |-> StyleCmds(style, row[x].style) \o <<PrintCmd(row[x].c)>>
                         \o rest.cmds,
              style |-> rest.style]
    ELSE PaintCells(row, x + 1, width, style)

\* the skip test as it would be without the test of full_refresh
RowSkipped_ignores_flag(r, y) == r.next.cells[y] = r.prev.cells[y]

\* the skip test as it would be with the negation of full_refresh dropped
RowSkipped_flag_inverted(r, y) == r.next.cells[y] = r.prev.cells[y] /\ r.full_refresh

RowSkipped(r, y) == r.next.cells[y] = r.prev.cells[y] /\ ~r.full_refresh

\* the rows from y (1-based) on
RECURSIVE PaintRows(_, _, _)
PaintRows(r, y, style) ==
    IF y > r.next.height \/ y > Len(r.next.cells) \/ y > Len(r.prev.cells)
    THEN <<>>
    ELSE IF RowSkipped(r, y)
    THEN PaintRows(r, y + 1, style)
    ELSE LET p == PaintCells(r.next.cells[y], 1, r.next.width, style)
         IN  <<MoveTo(0, top_left(r)[2] + (y - 1))>> \o p.cmds
                \o PaintRows(r, y + 1, p.style)

CursorCmds(r) ==
    IF r.next.cursor.some
    THEN <<MoveTo(r.next.cursor.v[1] + top_left(r)[1],
                  r.next.cursor.v[2] + top_left(r)[2]), ShowCmd>>
    ELSE <<HideCmd>>

\* end indexes next.cells[y], prev.cells[y] and next.cells[y][x]
endPanics(r) ==
    \/ r.next.height > Len(r.next.cells)
    \/ r.next.height > Len(r.prev.cells)
    \/ \E y \in 1..Min(r.next.height, Min(Len(r.next.cells), Len(r.prev.cells))) :
          ~RowSkipped(r, y) /\ r.next.width > Len(r.next.cells[y])

\* end as it would be if it cleared full_refresh but did not swap the buffers
end_without_swap(r) ==
    [cmds |-> PaintRows(r, 1, DefaultStyle) \o CursorCmds(r),
     r |-> [r EXCEPT !.full_refresh = FALSE]]

\* end, the backend succeeding: the command stream and the Renderer it leaves
end(r) ==
    [cmds |-> PaintRows(r, 1, DefaultStyle) \o CursorCmds(r),
     r |-> [r EXCEPT !.full_refresh = FALSE, !.next = r.prev, !.prev = r.next]]

(***************************************************************************)
(* The terminal behind the command stream: a grid of shown cells, the pen  *)
(* (the style printing uses), the cursor.  It keeps its pen from one       *)
(* flush to the next.                                                      *)
(***************************************************************************)
ShownBlank == [c |-> " ", style |-> DefaultStyle]

TtyOff == [on |-> FALSE]

TtyNew(size) ==
    [on |-> TRUE, size |-> size,
     screen |-> [y \in 1..size[2] |-> [x \in 1..size[1] |-> ShownBlank]],
     pen |-> DefaultStyle, cur |-> <<0, 0>>, shown |-> FALSE]

\* the terminal resized: what was shown stays where it still fits
TtyResize(t, size) ==
    [t EXCEPT
       !.size = size,
       !.screen = [y \in 1..size[2] |-> [x \in 1..size[1] |->
                     IF y <= t.size[2] /\ x <= t.size[1]
                     THEN t.screen[y][x] ELSE ShownBlank]]]

TtyPrint(t, c) ==
    LET w == display_width(c)
        x == t.cur[1] + 1
        y == t.cur[2] + 1
    IN  IF y > t.size[2] \/ x > t.size[1] \/ w = 0
        THEN t
        ELSE [t EXCEPT
                !.screen[y] = [i \in 1..t.size[1] |->
                                 IF i = x THEN [c |-> c, style |-> t.pen]
                                 ELSE IF i > x /\ i < x + w
                                      THEN [c |-> "", style |-> t.pen]
                                      ELSE t.screen[y][i]],
                !.cur = <<t.cur[1] + w, t.cur[2]>>]

TtyApply(t, cmd) ==
    CASE cmd.op = "MoveTo" -> [t EXCEPT !.cur = <<cmd.x, cmd.y>>]
      [] cmd.op = "SetBackgroundColor" ->
            [t EXCEPT !.pen.bg = IF cmd.color = "Reset" THEN "None" ELSE cmd.color]
      [] cmd.op = "SetForegroundColor" ->
            [t EXCEPT !.pen.fg = IF cmd.color = "Reset" THEN "None" ELSE cmd.color]
      [] cmd.op = "SetAttributes" -> [t EXCEPT !.pen.attr = cmd.attr]
      [] cmd.op = "Print" -> TtyPrint(t, cmd.c)
      [] cmd.op = "Show" -> [t EXCEPT !.shown = TRUE]
      [] cmd.op = "Hide" -> [t EXCEPT !.shown = FALSE]
      [] OTHER -> t

RECURSIVE TtyRun(_, _, _)
TtyRun(t, cmds, i) ==
    IF i > Len(cmds) THEN t ELSE TtyRun(TtyApply(t, cmds[i]), cmds, i + 1)

(***************************************************************************)
(* ReadLine (src/src/readline.rs).  strval is a String: here the sequence  *)
(* of its characters, each with the number of bytes of its UTF-8 encoding. *)
(* The source indexes the String by bytes (len, slices) and the collected  *)
(* Vec<char> by characters; both are modelled as the source uses them.     *)
(***************************************************************************)
\* the characters typed into the editor: ASCII, space and a two-byte one
\* ("E" stands for U+00E9, LATIN SMALL LETTER E WITH ACUTE)
EditChars == {"a", " ", "E"}
\* char::len_utf8
Utf8Len(c) == IF c = "E" THEN 2 ELSE 1

\* String::len: the length in bytes
RECURSIVE ByteLen(_)
ByteLen(str) == IF Len(str) = 0 THEN 0 ELSE Utf8Len(Head(str)) + ByteLen(Tail(str))

\* str::is_char_boundary
is_char_boundary(str, b) == \E k \in 0..Len(str) : ByteLen(SubSeq(str, 1, k)) = b
\* the number of characters that end at or before the boundary b
CharsBefore(str, b) == CHOOSE k \in 0..Len(str) : ByteLen(SubSeq(str, 1, k)) = b
\* &str[..b] and &str[b..]; both panic when b is not a char boundary
SliceTo(str, b) == SubSeq(str, 1, CharsBefore(str, b))
SliceFrom(str, b) == SubSeq(str, CharsBefore(str, b) + 1, Len(str))

ReadLine_new == [cursor |-> 0, h_scroll |-> 0, strval |-> <<>>]

\* ReadLine::cursor
cursor(rl) == Min(rl.cursor, ByteLen(rl.strval))

\* the first loop of left_word_offset; -1 when v[cursor] is out of bounds
RECURSIVE LeftSkipSpaces(_, _)
LeftSkipSpaces(v, c) ==
    IF c > 0
    THEN IF c >= Len(v) THEN -1
         ELSE IF v[c + 1] = " " THEN LeftSkipSpaces(v, c - 1) ELSE c
    ELSE c

\* the second loop of left_word_offset
RECURSIVE LeftSkipWord(_, _, _)
LeftSkipWord(v, c, prev_cursor) ==
    IF c < Len(v) /\ v[c + 1] # " "
    THEN IF c = 0 THEN c ELSE LeftSkipWord(v, c - 1, c)
    ELSE prev_cursor

left_word_offset(rl) ==
    LET v == rl.strval
        c0 == cursor(rl)
    IN  IF c0 > 0
        THEN LET c1 == LeftSkipSpaces(v, c0 - 1)
             IN  IF c1 < 0 THEN [panic |-> TRUE, ret |-> None]
                 ELSE [panic |-> FALSE, ret |-> Some(LeftSkipWord(v, c1, c1))]
        ELSE [panic |-> FALSE, ret |-> None]

\* the first loop of right_word_offset
RECURSIVE RightSkipWord(_, _)
RightSkipWord(v, c) ==
    IF c < Len(v) /\ v[c + 1] # " " THEN RightSkipWord(v, c + 1) ELSE c

\* the second loop of right_word_offset
RECURSIVE RightSkipSpaces(_, _)
RightSkipSpaces(v, c) ==
    IF c < Len(v) /\ v[c + 1] = " " THEN RightSkipSpaces(v, c + 1) ELSE c

\* right_word_offset as it would be without its second loop
right_word_offset_stops_at_spaces(rl) ==
    LET v == rl.strval
        c0 == cursor(rl)
    IN  IF c0 < Len(v) THEN Some(RightSkipWord(v, c0)) ELSE None

right_word_offset(rl) ==
    LET v == rl.strval
        c0 == cursor(rl)
    IN  IF c0 < Len(v)
        THEN Some(RightSkipSpaces(v, RightSkipWord(v, c0)))
        ELSE None

EditActions ==
    {"BackDeleteChar", "DeleteChar", "LeftChar", "LeftWord", "RightChar",
     "RightWord", "DelBackWord", "GotoLineStart", "GotoLineEnd", "InsertChar",
     "Complete"}

EditOk(rl) == [panic |-> FALSE, rl |-> rl]
EditPanic(rl) == [panic |-> TRUE, rl |-> rl]

\* ReadLine::apply_action
apply_action(rl, action, event) ==
    LET cur == cursor(rl)
        str == rl.strval
    IN  CASE action = "InsertChar" ->
               IF event.code.t = "Char"
               THEN IF ~is_char_boundary(str, cur) THEN EditPanic(rl)
                    ELSE EditOk([rl EXCEPT
                           !.strval = SliceTo(str, cur) \o <<event.code.ch>>
                                         \o SliceFrom(str, cur),
                           !.cursor = rl.cursor + 1])
               ELSE EditOk(rl)
          [] action = "BackDeleteChar" ->
               IF cur > 0
               THEN IF ~is_char_boundary(str, cur - 1) \/ ~is_char_boundary(str, cur)
                    THEN EditPanic(rl)
                    ELSE EditOk([rl EXCEPT
                           !.strval = SliceTo(str, cur - 1) \o SliceFrom(str, cur),
                           !.cursor = cur - 1])
               ELSE EditOk(rl)
          [] action = "DeleteChar" ->
               IF cur < ByteLen(str)
               THEN IF ~is_char_boundary(str, cur) \/ ~is_char_boundary(str, cur + 1)
                    THEN EditPanic(rl)
                    ELSE LET strval == SliceTo(str, cur) \o SliceFrom(str, cur + 1)
                         IN  EditOk([rl EXCEPT
                               !.strval = strval,
                               !.cursor = Min(rl.cursor, ByteLen(strval))])
               ELSE EditOk(rl)
          [] action = "LeftChar" ->
               IF cur > 0 THEN EditOk([rl EXCEPT !.cursor = cur - 1]) ELSE EditOk(rl)
          [] action = "LeftWord" ->
               LET off == left_word_offset(rl)
               IN  IF off.panic THEN EditPanic(rl)
                   ELSE IF off.ret.some THEN EditOk([rl EXCEPT !.cursor = off.ret.v])
                   ELSE EditOk(rl)
          [] action = "RightWord" ->
               LET off == right_word_offset(rl)
               IN  IF off.some THEN EditOk([rl EXCEPT !.cursor = off.v]) ELSE EditOk(rl)
          [] action = "DelBackWord" ->
               LET off == left_word_offset(rl)
               IN  IF off.panic THEN EditPanic(rl)
                   ELSE IF off.ret.some
                   THEN IF \/ off.ret.v > cur
                           \/ ~is_char_boundary(str, off.ret.v)
                           \/ ~is_char_boundary(str, cur)
                        THEN EditPanic(rl)
                        ELSE EditOk([rl EXCEPT
                               !.strval = SliceTo(str, off.ret.v) \o SliceFrom(str, cur),
                               !.cursor = off.ret.v])
                   ELSE EditOk(rl)
          [] action = "GotoLineStart" -> EditOk([rl EXCEPT !.cursor = 0])
          [] action = "GotoLineEnd" -> EditOk([rl EXCEPT !.cursor = ByteLen(str)])
          [] action = "RightChar" ->
               EditOk([rl EXCEPT !.cursor = Min(cur + 1, ByteLen(str))])
          [] OTHER -> EditOk(rl)

\* Main::new of the example, before run: the terminal is in cooked mode,
\* the cursor is shown and no screen region is taken
Main_new ==
    [pc |-> "start", raw |-> FALSE, hidden |-> FALSE, area |-> "none",
     leave |-> FALSE, mode |-> "Main", r |-> "none", result |-> "none"]

(***************************************************************************)
(* Initial state: Renderer::default(), an empty KeyMap, and a directly     *)
(* driven VirtualBuffer as VirtualBuffer::new(1, 1) makes it.              *)
(***************************************************************************)
Renderer_default ==
    [term_size |-> <<1, 1>>,
     config |-> [mode |-> "FullScreen"],
     next |-> VirtualBuffer_new(1, 1),
     prev |-> VirtualBuffer_new(1, 1),
     full_refresh |-> TRUE]

NoOp == [op |-> "none"]

Init ==
    /\ vbuf = VirtualBuffer_new(1, 1)
    /\ term_size = Renderer_default.term_size
    /\ config = Renderer_default.config
    /\ next = Renderer_default.next
    /\ prev = Renderer_default.prev
    /\ full_refresh = Renderer_default.full_refresh
    /\ tty = TtyOff
    /\ out = <<>>
    /\ map = {}
    /\ phase = "created"
    /\ draws = 0
    /\ pending = FALSE
    /\ line = ReadLine_new
    /\ session = Main_new
    /\ aborted = FALSE
    /\ last = NoOp

(***************************************************************************)
(* The VirtualBuffer driven directly: any sequence of putchar, resize and  *)
(* clear.  At most MaxPuts characters are put between two clears.          *)
(***************************************************************************)
MaxPuts == 2

Buf_resize(w, h) ==
    /\ ~aborted
    /\ vbuf' = resize(vbuf, w, h)
    /\ last' = [op |-> "resize", x |-> w, y |-> h]
    /\ UNCHANGED <<rendererVars, keyVars, editVars, runVars, aborted>>

Buf_clear ==
    /\ ~aborted
    /\ vbuf' = clear(vbuf)
    /\ aborted' = clearPanics(vbuf)
    /\ draws' = 0
    /\ last' = [op |-> "clear"]
    /\ UNCHANGED <<term_size, config, next, prev, full_refresh, tty, out,
                   phase, pending, keyVars, editVars, runVars>>

Buf_putchar(x, y, c, style) ==
    /\ ~aborted
    /\ draws < MaxPuts
    /\ LET r == putchar(vbuf, x, y, c, style)
       IN  /\ vbuf' = r.buf
           /\ aborted' = r.panic
           /\ last' = [op |-> "putchar", x |-> x, y |-> y, c |-> c, ret |-> r.ret]
    /\ draws' = draws + 1
    /\ UNCHANGED <<term_size, config, next, prev, full_refresh, tty, out,
                   phase, pending, keyVars, editVars, runVars>>

NextBuf ==
    \/ \E w \in Widths, h \in Heights : Buf_resize(w, h)
    \/ Buf_clear
    \/ \E x \in 0..MaxW, y \in 0..MaxH, c \in Chars, style \in Styles :
          Buf_putchar(x, y, c, style)

SpecBuf == Init /\ [][NextBuf]_vars

(***************************************************************************)
(* The Renderer and its caller.  The caller follows the frame lifecycle of *)
(* the host loop (examples/masof-simple.rs): term_on once, then resize     *)
(* events between frames, and frames begin, draw calls / set_cursor, end.  *)
(***************************************************************************)
R == [term_size |-> term_size, config |-> config, next |-> next,
      prev |-> prev, full_refresh |-> full_refresh]

SetR(r) ==
    /\ term_size' = r.term_size
    /\ config' = r.config
    /\ next' = r.next
    /\ prev' = r.prev
    /\ full_refresh' = r.full_refresh

\* what the callers pass in
DrawStrs == {<<"a">>, <<"W", "a">>}
Cursors == {None, Some(<<0, 0>>)}
TermSizes == Widths \X Heights
OverflowChecks == BOOLEAN
\* the column the terminal reports for the cursor when term_on asks
AnchorCols == {0}

Renderer_set_bottom_screen(n) ==
    /\ ~aborted
    /\ phase = "created"
    /\ config.mode = "FullScreen"
    /\ SetR(set_bottom_screen(R, n))
    /\ last' = [op |-> "set_bottom_screen"]
    /\ UNCHANGED <<bufVars, keyVars, editVars, runVars, tty, out, phase, draws, pending, aborted>>

term_on_step(size, position, checked) ==
    /\ ~aborted
    /\ phase = "created"
    /\ config.mode = "FullScreen" => position = <<0, 0>>
    /\ LET o == term_on(R, size, position, checked)
       IN  /\ SetR(o.r)
           /\ aborted' = o.panic
    /\ phase' = "on"
    /\ last' = [op |-> "term_on"]
    /\ UNCHANGED <<bufVars, keyVars, editVars, runVars, out, draws, pending>>

Renderer_term_on(size, position, checked) ==
    term_on_step(size, position, checked) /\ UNCHANGED tty

event_step(size, checked) ==
    /\ ~aborted
    /\ phase = "on"
    /\ LET o == on_resize(R, size[1], size[2], checked)
       IN  /\ SetR(o.r)
           /\ aborted' = o.panic
    /\ pending' = TRUE
    /\ last' = [op |-> "event"]
    /\ UNCHANGED <<bufVars, keyVars, editVars, runVars, out, phase, draws>>

Renderer_event(size, checked) ==
    event_step(size, checked) /\ UNCHANGED tty

Renderer_begin ==
    /\ ~aborted
    /\ phase = "on"
    /\ SetR(begin(R))
    /\ aborted' = clearPanics(next)
    /\ phase' = "frame"
    /\ draws' = 0
    /\ last' = [op |-> "begin"]
    /\ UNCHANGED <<bufVars, keyVars, editVars, runVars, tty, out, pending>>

Renderer_draw_str(x, y, s, style) ==
    /\ ~aborted
    /\ phase = "frame"
    /\ draws < MaxDraws
    /\ LET d == draw_str(R, x, y, s, style)
       IN  /\ SetR(d.r)
           /\ aborted' = d.panic
           /\ last' = [op |-> "draw_str", w |-> d.ret]
    /\ draws' = draws + 1
    /\ UNCHANGED <<bufVars, keyVars, editVars, runVars, tty, out, phase, pending>>

Renderer_set_cursor(info) ==
    /\ ~aborted
    /\ phase = "frame"
    /\ SetR(set_cursor(R, info))
    /\ last' = [op |-> "set_cursor"]
    /\ UNCHANGED <<bufVars, keyVars, editVars, runVars, tty, out, phase, draws, pending, aborted>>

\* end() returning Ok
end_step ==
    /\ ~aborted
    /\ phase = "frame"
    /\ IF endPanics(R)
       THEN /\ aborted' = TRUE
            /\ last' = [op |-> "end", ok |-> FALSE]
            /\ UNCHANGED <<term_size, config, next, prev, full_refresh,
                           out, pending>>
       ELSE LET e == end(R)
            IN  /\ SetR(e.r)
                /\ out' = e.cmds
                /\ pending' = FALSE
                /\ last' = [op |-> "end", ok |-> TRUE, full |-> full_refresh,
                            resized |-> pending]
                /\ UNCHANGED aborted
    /\ phase' = "on"
    /\ UNCHANGED <<bufVars, keyVars, editVars, runVars, draws>>

Renderer_end == end_step /\ UNCHANGED tty

\* end() returning a backend error: a queue or the flush failed, and the ?
\* returns before full_refresh is cleared and the buffers are swapped
Renderer_end_err ==
    /\ ~aborted
    /\ phase = "frame"
    /\ ~endPanics(R)
    /\ out' = <<>>
    /\ last' = [op |-> "end", ok |-> FALSE]
    /\ phase' = "on"
    /\ UNCHANGED <<bufVars, keyVars, editVars, runVars, term_size, config, next, prev,
                   full_refresh, tty, draws, pending, aborted>>

Next ==
    \/ \E n \in 1..MaxH : Renderer_set_bottom_screen(n)
    \/ \E size \in TermSizes, checked \in OverflowChecks :
          \E col \in AnchorCols, row \in 0..(size[2] - 1) :
             Renderer_term_on(size, <<col, row>>, checked)
    \/ \E size \in TermSizes, checked \in OverflowChecks :
          Renderer_event(size, checked)
    \/ Renderer_begin
    \/ \E x \in 0..MaxW, y \in 0..MaxH, s \in DrawStrs, style \in Styles :
          Renderer_draw_str(x, y, s, style)
    \/ \E info \in Cursors : Renderer_set_cursor(info)
    \/ Renderer_end
    \/ Renderer_end_err

Spec == Init /\ [][Next]_vars

(***************************************************************************)
(* The Renderer in FullScreen mode with the terminal attached: the         *)
(* terminal takes the size term_on and the resize events report, and       *)
(* interprets every command stream end() flushes.                          *)
(***************************************************************************)
Tty_term_on(size) ==
    /\ term_on_step(size, <<0, 0>>, TRUE)
    /\ tty' = TtyNew(size)

Tty_event(size) ==
    /\ event_step(size, TRUE)
    /\ tty' = TtyResize(tty, size)

Tty_end ==
    /\ end_step
    /\ tty' = IF aborted' THEN tty ELSE TtyRun(tty, out', 1)

NextTty ==
    \/ \E size \in TermSizes : Tty_term_on(size)
    \/ \E size \in TermSizes : Tty_event(size)
    \/ Renderer_begin
    \/ \E x \in 0..MaxW, y \in 0..MaxH, s \in DrawStrs, style \in Styles :
          Renderer_draw_str(x, y, s, style)
    \/ \E info \in Cursors : Renderer_set_cursor(info)
    \/ Tty_end
    \/ Renderer_end_err

SpecTty == Init /\ [][NextTty]_vars

(***************************************************************************)
(* The draw calls on their own: draw_str with every kind of character      *)
(* (width 0, 1, 2, and no width) at coordinates inside the buffer, on its  *)
(* edge and beyond it, on a full-screen Renderer.                          *)
(***************************************************************************)
DrawStrsAll == {<<"a">>, <<"z">>, <<"W">>, <<"c">>, <<"a", "z">>, <<"W", "a">>}

Draw_draw_str(x, y, s, style) ==
    /\ ~aborted
    /\ phase = "frame"
    /\ draws < MaxDraws
    /\ LET d == draw_str(R, x, y, s, style)
       IN  /\ SetR(d.r)
           /\ aborted' = d.panic
           /\ last' = [op |-> "draw_str", x |-> x, y |-> y, s |-> s,
                       style |-> style, w |-> d.ret]
    /\ draws' = draws + 1
    /\ UNCHANGED <<bufVars, keyVars, editVars, runVars, tty, out, phase, pending>>

NextDraw ==
    \/ \E size \in TermSizes : Renderer_term_on(size, <<0, 0>>, TRUE)
    \/ \E size \in TermSizes : Renderer_event(size, TRUE)
    \/ Renderer_begin
    \/ \E x \in 0..(MaxW + 1), y \in 0..(MaxH + 1), s \in DrawStrsAll, style \in Styles :
          Draw_draw_str(x, y, s, style)
    \/ Renderer_end

SpecDraw == Init /\ [][NextDraw]_vars

(***************************************************************************)
(* The anchor of the bottom region under resize events: a Renderer with a  *)
(* bottom region of up to MaxAnchorH lines, activated in a terminal one    *)
(* column wide and up to MaxAnchorH rows high, and then resized.           *)
(***************************************************************************)
MaxAnchorH == 4
AnchorSizes == {1} \X (1..MaxAnchorH)

NextAnchor ==
    \/ \E n \in 1..MaxAnchorH : Renderer_set_bottom_screen(n)
    \/ \E size \in AnchorSizes, checked \in OverflowChecks :
          \E row \in 0..(size[2] - 1) :
             Renderer_term_on(size, <<0, row>>, checked)
    \/ \E size \in AnchorSizes, checked \in OverflowChecks :
          Renderer_event(size, checked)

SpecAnchor == Init /\ [][NextAnchor]_vars

(***************************************************************************)
(* KeyMap (keyaction.rs).  The map is its set of bindings, one per key.    *)
(***************************************************************************)
Modifiers_default == [ctrl |-> FALSE, alt |-> FALSE, shift |-> FALSE]
Modifiers_shift(m) == [m EXCEPT !.shift = TRUE]
Modifiers_ctrl(m) == [m EXCEPT !.ctrl = TRUE]

Char(ch) == [t |-> "Char", ch |-> ch]
Enter == [t |-> "Enter"]
KeyCodes == {Char("a"), Enter}

Specific(code, modifiers) == [kind |-> "Specific", code |-> code, mods |-> modifiers]
AllChars(modifiers) == [kind |-> "AllChars", mods |-> modifiers]

Actions == 1..NumActions

\* HashMap::insert and HashMap::get
insert(m, key, a) == {b \in m : b.key # key} \cup {[key |-> key, value |-> a]}
get(m, key) ==
    IF \E b \in m : b.key = key
    THEN Some((CHOOSE b \in m : b.key = key).value)
    ELSE None
Keys(m) == {b.key : b \in m}

add_no_mods(m, code, a) == insert(m, Specific(code, Modifiers_default), a)
add_ctrl(m, code, a) == insert(m, Specific(code, Modifiers_ctrl(Modifiers_default)), a)
add_shift(m, code, a) == insert(m, Specific(code, Modifiers_shift(Modifiers_default)), a)
add_char_no_handler(m, a) == insert(m, AllChars(Modifiers_default), a)
add_char_shift(m, a) == insert(m, AllChars(Modifiers_shift(Modifiers_default)), a)

\* a KeyEvent: a code and the set of KeyModifiers flags
KeyModifiers == {"CONTROL", "SHIFT", "ALT"}
KeyEvent(code, flags) == [code |-> code, modifiers |-> flags]

EventModifiers(key_event) ==
    [ctrl |-> "CONTROL" \in key_event.modifiers,
     shift |-> "SHIFT" \in key_event.modifiers,
     alt |-> "ALT" \in key_event.modifiers]

\* get_action as it would be with the wildcard tier looked up first
get_action_wildcard_first(m, key_event) ==
    LET modifiers == EventModifiers(key_event)
        wild == get(m, AllChars(modifiers))
    IN  IF key_event.code.t = "Char" /\ wild.some THEN wild
        ELSE get(m, Specific(key_event.code, modifiers))

\* get_action as it would be without the test for a character key
get_action_any_code(m, key_event) ==
    LET modifiers == EventModifiers(key_event)
        exact == get(m, Specific(key_event.code, modifiers))
    IN  IF exact.some THEN exact ELSE get(m, AllChars(modifiers))

get_action(m, key_event) ==
    LET modifiers == EventModifiers(key_event)
        exact == get(m, Specific(key_event.code, modifiers))
    IN  IF exact.some THEN exact
        ELSE IF key_event.code.t = "Char"
        THEN get(m, AllChars(modifiers))
        ELSE None

\* Display for KeyCombination
KeyCodeText(code) ==
    CASE code.t = "Char" ->
            (CASE code.ch = " " -> "Space"
               [] code.ch = "*" -> "'*'"
               [] code.ch = "," -> "','"
               [] OTHER -> code.ch)
      [] code.t = "Null" -> "<null>"
      [] OTHER -> code.t

KeyCombinationText(key) ==
    IF key.kind = "Specific"
    THEN (IF key.mods.ctrl THEN "C-" ELSE "")
      \o (IF key.mods.alt THEN "M-" ELSE "")
      \o (IF key.mods.shift THEN "S-" ELSE "")
      \o KeyCodeText(key.code)
    ELSE "?"

\* Display for the action type of the map
ActionNames == <<"Back", "Quit", "Submit", "Yank">>
ActionText(a) == IF a <= Len(ActionNames) THEN ActionNames[a] ELSE "Zap"

RECURSIVE Join(_, _)
Join(strs, sep) ==
    IF Len(strs) = 0 THEN ""
    ELSE IF Len(strs) = 1 THEN strs[1]
    ELSE strs[1] \o sep \o Join(Tail(strs), sep)

\* {:width$}: left-aligned, padded with spaces to at least width characters
RECURSIVE Pad(_, _)
Pad(str, width) == IF Len(str) >= width THEN str ELSE Pad(str \o " ", width)

LegendWidth == 17

LegendLine(str_keys, a) ==
    "    " \o Pad(Join(str_keys, " / "), LegendWidth) \o "  - " \o ActionText(a)

\* the first loop of describe: the keys of each action, in the order the
\* HashMap iterator visits the bindings
RECURSIVE KeysOf(_, _, _)
KeysOf(m, order, a) ==
    IF Len(order) = 0 THEN <<>>
    ELSE (IF get(m, order[1]) = Some(a) THEN <<order[1]>> ELSE <<>>)
            \o KeysOf(m, Tail(order), a)

\* the inner loop of describe: the texts pushed for the keys of one action
RECURSIVE StrKeys(_, _)
StrKeys(keys, str_keys) ==
    IF Len(keys) = 0 THEN str_keys
    ELSE IF keys[1].kind = "Specific"
    THEN StrKeys(Tail(keys), Append(str_keys, KeyCombinationText(keys[1])))
    ELSE IF Len(str_keys) = 0
    THEN StrKeys(Tail(keys), Append(str_keys, "<char>"))
    ELSE StrKeys(Tail(keys), str_keys)

\* the entries of the BTreeMap, in ascending order of the action
RECURSIVE Ascending(_)
Ascending(S) ==
    IF S = {} THEN <<>>
    ELSE LET lo == CHOOSE a \in S : \A b \in S : a <= b
         IN  <<lo>> \o Ascending(S \ {lo})

\* the actions in the order the iterator first visits them
RECURSIVE FirstVisits(_, _, _)
FirstVisits(m, order, seen) ==
    IF Len(order) = 0 THEN <<>>
    ELSE LET a == get(m, order[1]).v
         IN  IF a \in seen THEN FirstVisits(m, Tail(order), seen)
             ELSE <<a>> \o FirstVisits(m, Tail(order), seen \cup {a})

\* describe as it would be grouping in a map that keeps insertion order
describe_unsorted(m, order) ==
    LET acts == FirstVisits(m, order, {})
    IN  [i \in 1..(Len(acts) + 1) |->
           IF i <= Len(acts)
           THEN LET str_keys == StrKeys(KeysOf(m, order, acts[i]), <<>>)
                IN  [action |-> Some(acts[i]), str_keys |-> str_keys,
                     text |-> LegendLine(str_keys, acts[i])]
           ELSE [action |-> None, str_keys |-> <<>>, text |-> ""]]

\* describe: the lines written to output, each with the vector it was joined
\* from, and then the empty line
describe(m, order) ==
    LET acts == Ascending({b.value : b \in m})
    IN  [i \in 1..(Len(acts) + 1) |->
           IF i <= Len(acts)
           THEN LET str_keys == StrKeys(KeysOf(m, order, acts[i]), <<>>)
                IN  [action |-> Some(acts[i]), str_keys |-> str_keys,
                     text |-> LegendLine(str_keys, acts[i])]
           ELSE [action |-> None, str_keys |-> <<>>, text |-> ""]]

\* the orders in which a HashMap iterator may visit the keys
Orders(S) ==
    {o \in [1..Cardinality(S) -> S] : \A i, j \in 1..Cardinality(S) : i # j => o[i] # o[j]}

(***************************************************************************)
(* A KeyMap built by the add_* methods and then queried.                   *)
(***************************************************************************)
KeyMap_add(m) ==
    /\ Cardinality(Keys(m)) <= MaxBindings
    /\ map' = m
    /\ last' = [op |-> "add"]
    /\ UNCHANGED <<bufVars, rendererVars, editVars, runVars, aborted>>

KeyMap_add_no_mods(code, a) == KeyMap_add(add_no_mods(map, code, a))
KeyMap_add_ctrl(code, a) == KeyMap_add(add_ctrl(map, code, a))
KeyMap_add_shift(code, a) == KeyMap_add(add_shift(map, code, a))
KeyMap_add_char_no_handler(a) ==
    KeyMap_add(add_char_no_handler(map, a))
KeyMap_add_char_shift(a) == KeyMap_add(add_char_shift(map, a))

KeyMap_get_action(key_event) ==
    /\ last' = [op |-> "get_action", event |-> key_event,
                ret |-> get_action(map, key_event)]
    /\ UNCHANGED <<bufVars, rendererVars, keyVars, editVars, runVars, aborted>>

KeyMap_describe(order) ==
    /\ last' = [op |-> "describe", lines |-> describe(map, order)]
    /\ UNCHANGED <<bufVars, rendererVars, keyVars, editVars, runVars, aborted>>

NextKeys ==
    \/ \E code \in KeyCodes, a \in Actions : KeyMap_add_no_mods(code, a)
    \/ \E code \in KeyCodes, a \in Actions : KeyMap_add_ctrl(code, a)
    \/ \E code \in KeyCodes, a \in Actions : KeyMap_add_shift(code, a)
    \/ \E a \in Actions : KeyMap_add_char_no_handler(a)
    \/ \E a \in Actions : KeyMap_add_char_shift(a)
    \/ \E code \in KeyCodes, flags \in SUBSET KeyModifiers :
          KeyMap_get_action(KeyEvent(code, flags))
    \/ \E order \in Orders(Keys(map)) : KeyMap_describe(order)

SpecKeys == Init /\ [][NextKeys]_vars

(***************************************************************************)
(* A ReadLine driven by key events: any sequence of apply_action calls on  *)
(* a ReadLine::new().  The text is at most MaxText characters long.        *)
(***************************************************************************)
MaxText == 4

\* a key event that carries no character, as the default key map sends with
\* every action but InsertChar
NoCharEvent == KeyEvent(Enter, {})

ReadLine_apply(action, event) ==
    /\ ~aborted
    /\ LET res == apply_action(line, action, event)
       IN  /\ line' = res.rl
           /\ aborted' = res.panic
           /\ last' = [op |-> "apply_action", action |-> action, event |-> event]
    /\ UNCHANGED <<bufVars, rendererVars, keyVars, runVars>>

ReadLine_InsertChar(event) ==
    /\ Len(line.strval) < MaxText
    /\ ReadLine_apply("InsertChar", event)
ReadLine_BackDeleteChar == ReadLine_apply("BackDeleteChar", NoCharEvent)
ReadLine_DeleteChar == ReadLine_apply("DeleteChar", NoCharEvent)
ReadLine_LeftChar == ReadLine_apply("LeftChar", NoCharEvent)
ReadLine_RightChar == ReadLine_apply("RightChar", NoCharEvent)
ReadLine_LeftWord == ReadLine_apply("LeftWord", NoCharEvent)
ReadLine_RightWord == ReadLine_apply("RightWord", NoCharEvent)
ReadLine_DelBackWord == ReadLine_apply("DelBackWord", NoCharEvent)
ReadLine_GotoLineStart == ReadLine_apply("GotoLineStart", NoCharEvent)
ReadLine_GotoLineEnd == ReadLine_apply("GotoLineEnd", NoCharEvent)
ReadLine_Complete == ReadLine_apply("Complete", NoCharEvent)

NextEdit ==
    \/ \E c \in EditChars : ReadLine_InsertChar(KeyEvent(Char(c), {}))
    \/ ReadLine_InsertChar(NoCharEvent)
    \/ ReadLine_BackDeleteChar
    \/ ReadLine_DeleteChar
    \/ ReadLine_LeftChar
    \/ ReadLine_RightChar
    \/ ReadLine_LeftWord
    \/ ReadLine_RightWord
    \/ ReadLine_DelBackWord
    \/ ReadLine_GotoLineStart
    \/ ReadLine_GotoLineEnd
    \/ ReadLine_Complete

SpecEdit == Init /\ [][NextEdit]_vars

(***************************************************************************)
(* Main::run of examples/masof-simple.rs: term_on, the event loop with its *)
(* redraws, term_off.  Every call to the terminal backend may return an    *)
(* error; the ? operator then returns from the enclosing function.         *)
(***************************************************************************)
\* init_key_maps
MainModeMap == add_no_mods(add_no_mods({}, Char("q"), "Quit"), Enter, "Edit")
EditModeMap == add_no_mods({}, Enter, "Main")

\* DEF_KEY_MAP of the line editor
DefKeyMap ==
    LET m1 == add_no_mods({}, [t |-> "Backspace"], "BackDeleteChar")
        m2 == add_no_mods(m1, [t |-> "Delete"], "DeleteChar")
        m3 == add_no_mods(m2, [t |-> "Left"], "LeftChar")
        m4 == add_no_mods(m3, [t |-> "Right"], "RightChar")
        m5 == add_ctrl(m4, [t |-> "Left"], "LeftWord")
        m6 == add_ctrl(m5, [t |-> "Right"], "RightWord")
        m7 == add_ctrl(m6, Char("w"), "DelBackWord")
        m8 == add_no_mods(m7, [t |-> "Home"], "GotoLineStart")
        m9 == add_no_mods(m8, [t |-> "End"], "GotoLineEnd")
        m10 == add_char_no_handler(m9, "InsertChar")
        m11 == add_char_shift(m10, "InsertChar")
    IN  add_no_mods(m11, [t |-> "Tab"], "Complete")

\* the key events the terminal sends in the model
RunKeys ==
    {KeyEvent(Char("q"), {}), KeyEvent(Char("E"), {}), KeyEvent(Enter, {}),
     KeyEvent([t |-> "End"], {})}

\* main_action as it would be if the Edit action also set leave
main_action_edit_leaves(s, action) ==
    CASE action = "Quit" -> [s EXCEPT !.leave = TRUE]
      [] action = "Edit" -> [s EXCEPT !.mode = "Edit", !.leave = TRUE]
      [] action = "Main" -> [s EXCEPT !.mode = "Main"]

\* main_action
main_action(s, action) ==
    CASE action = "Quit" -> [s EXCEPT !.leave = TRUE]
      [] action = "Edit" -> [s EXCEPT !.mode = "Edit"]
      [] action = "Main" -> [s EXCEPT !.mode = "Main"]

\* on_event for a key event: the session and the ReadLine it leaves
on_event(s, rl, event) ==
    IF s.mode = "Main"
    THEN LET action == get_action(MainModeMap, event)
         IN  [s |-> IF action.some THEN main_action(s, action.v) ELSE s,
              rl |-> rl, panic |-> FALSE]
    ELSE LET edit == get_action(DefKeyMap, event)
         IN  IF edit.some
             THEN LET a == apply_action(rl, edit.v, event)
                  IN  [s |-> s, rl |-> a.rl, panic |-> a.panic]
             ELSE LET action == get_action(EditModeMap, event)
                  IN  [s |-> IF action.some THEN main_action(s, action.v) ELSE s,
                       rl |-> rl, panic |-> FALSE]

\* a draw_str call of redraw
DrawCall(x, y, s, style) == [x |-> x, y |-> y, s |-> s, style |-> style]

\* the draw calls of redraw in the order it makes them; tick is the column
\* the moving text starts from, l the row of the line editor
RedrawCalls(mode, rl, tick, l) ==
    <<DrawCall(10, 1, <<"m">>, DefaultStyle), DrawCall(8, 8, <<"m">>, DefaultStyle)>>
       \o [i \in 1..10 |-> DrawCall(0, i - 1, <<"0">>, RedStyle)]
       \o <<DrawCall(2 + tick, 3, <<"t">>, RedStyle),
            DrawCall(4 + tick, 3, <<"t">>, RedStyle)>>
       \o (IF mode = "Edit"
           THEN <<DrawCall(0, l, <<":">>, DefaultStyle),
                  DrawCall(1, l, rl.strval, DefaultStyle)>>
           ELSE <<>>)

\* the buffer after the draw calls from the i-th on, and whether one panicked
RECURSIVE DrawAll(_, _, _)
DrawAll(buf, calls, i) ==
    IF i > Len(calls) THEN [buf |-> buf, panic |-> FALSE]
    ELSE LET d == draw_str_from(buf, calls[i].x, calls[i].y, calls[i].s,
                                calls[i].style, 1)
         IN  IF d.panic THEN [buf |-> d.buf, panic |-> TRUE]
             ELSE DrawAll(d.buf, calls, i + 1)

\* redraw from begin to the call of end: the next buffer it leaves
redraw_draws(r, mode, rl, tick) ==
    LET l == height(r) - 1
        d == DrawAll(clear(r.next), RedrawCalls(mode, rl, tick, l), 1)
    IN  [next |-> [d.buf EXCEPT
                     !.cursor = IF mode = "Edit"
                                THEN Some(<<1 + rl.cursor - rl.h_scroll, l>>)
                                ELSE None],
         panic |-> clearPanics(r.next) \/ d.panic]

\* where term_on, redraw and term_off may fail
TermOnFailures == {"none", "enable_raw_mode", "queue", "backend", "flush"}
TermOffFailures == {"none", "queue", "flush", "disable_raw_mode"}

\* run: self.renderer.term_on(&mut stdout)?
Main_term_on(fail, size, position, written) ==
    /\ ~aborted
    /\ session.pc = "start"
    /\ config.mode = "FullScreen" => position = <<0, 0>>
    /\ LET o == term_on(R, size, position, TRUE)
           region == IF config.mode = "FullScreen" THEN "alternate" ELSE "bottom"
       IN  CASE fail = "enable_raw_mode" ->
                  /\ session' = [session EXCEPT !.pc = "exited", !.result = "err"]
                  /\ UNCHANGED <<term_size, config, next, prev, full_refresh>>
             [] fail = "queue" ->
                  /\ session' = [session EXCEPT !.pc = "exited", !.result = "err",
                                                !.raw = TRUE]
                  /\ UNCHANGED <<term_size, config, next, prev, full_refresh>>
             [] fail = "backend" ->
                  /\ session' = [session EXCEPT !.pc = "exited", !.result = "err",
                                                !.raw = TRUE]
                  /\ SetR(on_resize(R, size[1], size[2], TRUE).r)
             [] fail = "flush" ->
                  /\ session' = [session EXCEPT !.pc = "exited", !.result = "err",
                                    !.raw = TRUE, !.hidden = written,
                                    !.area = IF written THEN region ELSE "none"]
                  /\ SetR(o.r)
             [] OTHER ->
                  /\ session' = [session EXCEPT !.pc = "redraw", !.raw = TRUE,
                                    !.hidden = TRUE, !.area = region]
                  /\ SetR(o.r)
    /\ last' = [op |-> "run_term_on", fail |-> fail]
    /\ UNCHANGED <<bufVars, keyVars, editVars, tty, out, phase, draws, pending, aborted>>

\* event_loop: self.redraw(stdout)? and the test of the while loop after it
Main_redraw(failed, tick) ==
    /\ ~aborted
    /\ session.pc = "redraw"
    /\ LET d == redraw_draws(R, session.mode, line, tick)
       IN  /\ aborted' = (d.panic \/ endPanics([R EXCEPT !.next = d.next]))
           /\ next' = IF aborted' \/ failed THEN d.next ELSE prev
           /\ prev' = IF aborted' \/ failed THEN prev ELSE d.next
           /\ full_refresh' = IF aborted' \/ failed THEN full_refresh ELSE FALSE
           /\ out' = IF aborted' \/ failed THEN <<>>
                     ELSE end([R EXCEPT !.next = d.next]).cmds
           /\ session' =
                 IF aborted' THEN [session EXCEPT !.pc = "exited"]
                 ELSE IF failed THEN [session EXCEPT !.pc = "term_off", !.r = "err"]
                 ELSE IF session.leave
                 THEN [session EXCEPT !.pc = "term_off", !.r = "ok"]
                 ELSE [session EXCEPT !.pc = "wait"]
    /\ last' = [op |-> "redraw", failed |-> failed]
    /\ UNCHANGED <<bufVars, keyVars, editVars, term_size, config, tty, phase,
                   draws, pending>>

\* event_loop: the delay of the select! fires, or the stream ends
Main_delay ==
    /\ ~aborted
    /\ session.pc = "wait"
    /\ session' = [session EXCEPT !.pc = "redraw"]
    /\ last' = [op |-> "delay"]
    /\ UNCHANGED <<bufVars, rendererVars, keyVars, editVars, aborted>>

\* event_loop: the stream yields an error and the loop breaks
Main_stream_error ==
    /\ ~aborted
    /\ session.pc = "wait"
    /\ session' = [session EXCEPT !.pc = "term_off", !.r = "ok"]
    /\ last' = [op |-> "stream_error"]
    /\ UNCHANGED <<bufVars, rendererVars, keyVars, editVars, aborted>>

\* event_loop: a mouse event goes to renderer.event (which ignores it) and
\* the loop continues without a redraw
Main_mouse ==
    /\ ~aborted
    /\ session.pc = "wait"
    /\ last' = [op |-> "mouse"]
    /\ UNCHANGED <<bufVars, rendererVars, keyVars, editVars, runVars, aborted>>

\* event_loop: a key event goes to renderer.event (which ignores it) and to
\* on_event
Main_key(event) ==
    /\ ~aborted
    /\ session.pc = "wait"
    /\ (session.mode = "Edit" /\ event.code.t = "Char") => Len(line.strval) < MaxText
    /\ LET o == on_event(session, line, event)
       IN  /\ line' = o.rl
           /\ aborted' = o.panic
           /\ session' = IF o.panic THEN [session EXCEPT !.pc = "exited"]
                         ELSE [o.s EXCEPT !.pc = "redraw"]
    /\ last' = [op |-> "key", event |-> event]
    /\ UNCHANGED <<bufVars, rendererVars, keyVars>>

\* event_loop: a resize event goes to renderer.event; on_event ignores it
Main_resize(size) ==
    /\ ~aborted
    /\ session.pc = "wait"
    /\ LET o == on_resize(R, size[1], size[2], TRUE)
       IN  /\ SetR(o.r)
           /\ aborted' = o.panic
           /\ session' = IF o.panic THEN [session EXCEPT !.pc = "exited"]
                         ELSE [session EXCEPT !.pc = "redraw"]
    /\ last' = [op |-> "resize"]
    /\ UNCHANGED <<bufVars, keyVars, editVars, tty, out, phase, draws, pending>>

\* run: self.renderer.term_off(&mut stdout)? and then r
Main_term_off(fail, written) ==
    /\ ~aborted
    /\ session.pc = "term_off"
    /\ session' =
          CASE fail = "queue" ->
                 [session EXCEPT !.pc = "exited", !.result = "err"]
            [] fail = "flush" ->
                 [session EXCEPT !.pc = "exited", !.result = "err",
                     !.hidden = IF written THEN FALSE ELSE session.hidden,
                     !.area = IF written THEN "none" ELSE session.area]
            [] fail = "disable_raw_mode" ->
                 [session EXCEPT !.pc = "exited", !.result = "err",
                     !.hidden = FALSE, !.area = "none"]
            [] OTHER ->
                 [session EXCEPT !.pc = "exited", !.result = session.r,
                     !.raw = FALSE, !.hidden = FALSE, !.area = "none"]
    /\ last' = [op |-> "run_term_off", fail |-> fail]
    /\ UNCHANGED <<bufVars, rendererVars, keyVars, editVars, aborted>>

\* Main::new with the --bottom option
Main_bottom(n) ==
    /\ session.pc = "start"
    /\ config.mode = "FullScreen"
    /\ SetR(set_bottom_screen(R, n))
    /\ last' = [op |-> "bottom"]
    /\ UNCHANGED <<bufVars, keyVars, editVars, runVars, tty, out, phase, draws,
                   pending, aborted>>

NextRun ==
    \/ \E n \in 1..MaxH : Main_bottom(n)
    \/ \E fail \in TermOnFailures, size \in TermSizes, written \in BOOLEAN :
          \E col \in AnchorCols, row \in 0..(size[2] - 1) :
             Main_term_on(fail, size, <<col, row>>, written)
    \/ \E failed \in BOOLEAN, tick \in 0..(term_size[1] - 1) : Main_redraw(failed, tick)
    \/ Main_delay
    \/ Main_stream_error
    \/ Main_mouse
    \/ \E event \in RunKeys : Main_key(event)
    \/ \E size \in TermSizes : Main_resize(size)
    \/ \E fail \in TermOffFailures, written \in BOOLEAN : Main_term_off(fail, written)

SpecRun == Init /\ [][NextRun]_vars

(***************************************************************************)
(* Claims about VirtualBuffer, checked under SpecBuf.                      *)
(***************************************************************************)
\* C4: putchar(x, y, c, style) returns nothing and leaves the buffer unchanged
\* whenever x + display_width(c) exceeds the width or y is no valid row;
\* otherwise it writes a Content cell at (x, y), a WideExtension cell in each of
\* the following display_width(c) - 1 columns, and returns display_width(c).
C4_PutcharContract ==
    [][\A x \in 0..MaxW, y \in 0..MaxH, c \in Chars, style \in Styles :
          Buf_putchar(x, y, c, style) =>
             LET w == display_width(c)
             IN  IF x + w > vbuf.width \/ y >= vbuf.height
                 THEN last'.ret = None /\ vbuf' = vbuf /\ ~aborted'
                 ELSE /\ ~aborted'
                      /\ last'.ret = Some(w)
                      /\ x + 1 <= Len(vbuf'.cells[y + 1])
                      /\ vbuf'.cells[y + 1][x + 1] = CellContent_new(c, style)
                      /\ \A i \in (x + 2)..(x + w) :
                            vbuf'.cells[y + 1][i] = WideExtension]_vars

\* the wide-character edge of C4: a 2-column character was put at column
\* width - 2 and occupies columns width - 2 and width - 1
C4_Witness ==
    /\ last.op = "putchar"
    /\ last.c = "W"
    /\ last.x = vbuf.width - 2
    /\ last.ret = Some(2)
    /\ IsContent(vbuf.cells[last.y + 1][vbuf.width - 1])
    /\ IsExt(vbuf.cells[last.y + 1][vbuf.width])

\* C5: when putchar writes a 1-column character at the lead column of a pair
\* written as a 2-column character, the WideExtension cell to its right is
\* overwritten too: it is no WideExtension left without its wide Content cell.
C5_NarrowOverWideLead ==
    [][\A x \in 0..MaxW, y \in 0..MaxH, c \in Chars, style \in Styles :
          ( /\ Buf_putchar(x, y, c, style)
            /\ display_width(c) = 1
            /\ last'.ret = Some(1)
            /\ x + 2 <= vbuf.width
            /\ IsContent(vbuf.cells[y + 1][x + 1])
            /\ vbuf.cells[y + 1][x + 1].width = 2
            /\ IsExt(vbuf.cells[y + 1][x + 2]) )
          => ~IsExt(vbuf'.cells[y + 1][x + 2])]_vars

\* a narrow character was put over the lead column of a wide pair
C5_Witness ==
    /\ last.op = "putchar"
    /\ last.ret = Some(1)
    /\ last.x + 2 <= vbuf.width
    /\ vbuf.cells[last.y + 1][last.x + 1].width = 1
    /\ IsExt(vbuf.cells[last.y + 1][last.x + 2])

\* C6: in every state reached by putchar, resize and clear, each WideExtension
\* cell is immediately preceded in its row by a Content cell whose display
\* width spans it, and no Content cell extends past the buffer width.
C6_WideInvariant ==
    \A y \in 1..Len(vbuf.cells) : \A i \in 1..Len(vbuf.cells[y]) :
       LET cell == vbuf.cells[y][i]
       IN  /\ IsExt(cell) =>
                /\ i > 1
                /\ IsContent(vbuf.cells[y][i - 1])
                /\ vbuf.cells[y][i - 1].width >= 2
           /\ IsContent(cell) => (i - 1) + cell.width <= vbuf.width

\* a wide character sits in the buffer after a resize or a later putchar
C6_Witness ==
    /\ last.op \in {"resize", "putchar"}
    /\ \E y \in 1..Len(vbuf.cells) : \E i \in 1..Len(vbuf.cells[y]) :
          IsContent(vbuf.cells[y][i]) /\ vbuf.cells[y][i].width = 2

(***************************************************************************)
(* Claims about the Renderer.                                              *)
(***************************************************************************)
EndedOk == last.op = "end" /\ last.ok

\* what the terminal shows for a cell of a buffer
Shows(shown, cell) ==
    IF IsContent(cell)
    THEN shown = [c |-> cell.c, style |-> cell.style]
    ELSE shown.c = ""

\* the screen region shows buffer buf, cell for cell
RegionShows(buf) ==
    \A y \in 1..buf.height : \A x \in 1..buf.width :
       LET row == top_left(R)[2] + y
       IN  /\ row <= tty.size[2]
           /\ x <= tty.size[1]
           /\ Shows(tty.screen[row][x], buf.cells[y][x])

\* C1 (checked under SpecTty): whenever end() returns successfully, the
\* characters and styles the terminal shows in the screen region equal the
\* buffer that was flushed (prev after the swap), cell for cell.
C1_ScreenShowsFlushed == EndedOk => RegionShows(prev)

\* a frame with a styled character was flushed and is shown as drawn
C1_Witness ==
    /\ EndedOk
    /\ RegionShows(prev)
    /\ \E y \in 1..prev.height : \E x \in 1..prev.width :
          IsContent(prev.cells[y][x]) /\ prev.cells[y][x].style = RedStyle

\* the frame just flushed (prev after the swap) and the frame flushed before
\* it (next after the swap) are identical, and full_refresh was not set
SameFrameAgain ==
    /\ EndedOk
    /\ ~last.full
    /\ next.cells = prev.cells
    /\ next.cursor = prev.cursor

\* C2 as claimed: for two consecutive identical frames (a visible cursor at
\* the same position included) with full_refresh false, the second end() emits
\* no row-repaint command and no cursor-move command.
C2_NoRepaintNoMove ==
    SameFrameAgain =>
       \A i \in 1..Len(out) : out[i].op \notin {"MoveTo", "Print"}

\* C2 as amended: the second end() emits no row-repaint command; all it emits
\* is the closing cursor command: Hide when the cursor is absent, and one move
\* to the recorded cursor position followed by Show when it is visible.
C2_OnlyCursorCommands ==
    SameFrameAgain =>
       out = IF prev.cursor.some
             THEN <<MoveTo(prev.cursor.v[1], prev.cursor.v[2] + top_left(R)[2]),
                    ShowCmd>>
             ELSE <<HideCmd>>

\* the same non-blank frame with a visible cursor was flushed twice
C2_Witness ==
    /\ SameFrameAgain
    /\ prev.cursor.some
    /\ \E y \in 1..prev.height : \E x \in 1..prev.width : prev.cells[y][x] # Blank

\* the commands of out before the closing cursor commands
OutBody ==
    IF Len(out) = 0 THEN <<>>
    ELSE IF out[Len(out)].op = "Show" THEN SubSeq(out, 1, Len(out) - 2)
    ELSE SubSeq(out, 1, Len(out) - 1)

\* the characters printed after command i of cmds, up to the next MoveTo
RECURSIVE PrintedFrom(_, _)
PrintedFrom(cmds, i) ==
    IF i > Len(cmds) \/ cmds[i].op = "MoveTo" THEN <<>>
    ELSE (IF cmds[i].op = "Print" THEN <<cmds[i].c>> ELSE <<>>)
            \o PrintedFrom(cmds, i + 1)

\* the characters of the Content cells of a row, left to right
RECURSIVE ContentChars(_)
ContentChars(row) ==
    IF Len(row) = 0 THEN <<>>
    ELSE (IF IsContent(row[1]) THEN <<row[1].c>> ELSE <<>>) \o ContentChars(Tail(row))

\* row y (1-based) of buf was repainted by out: a move to its start, then
\* its characters
RowRepainted(buf, y) ==
    \E i \in 1..Len(OutBody) :
       /\ OutBody[i] = MoveTo(0, top_left(R)[2] + (y - 1))
       /\ PrintedFrom(OutBody, i + 1) = ContentChars(buf.cells[y])

\* C3: every resize event delivered to Renderer::event sets full_refresh, and
\* the first end() after it repaints every row of the flushed buffer, also the
\* rows that equal the corresponding row of prev.
C3_ResizeRepaintsAll ==
    /\ (last.op = "event" /\ ~aborted) => full_refresh
    /\ (EndedOk /\ last.resized) =>
          \A y \in 1..prev.height : RowRepainted(prev, y)

\* after a resize event, a frame equal to the one flushed before (two rows,
\* not blank) was flushed, and its rows were repainted
C3_Witness ==
    /\ EndedOk
    /\ last.resized
    /\ prev.height = 2
    /\ next.cells = prev.cells
    /\ \E y \in 1..prev.height : \E x \in 1..prev.width : prev.cells[y][x] # Blank
    /\ \A y \in 1..prev.height : RowRepainted(prev, y)

GridOf(buf) ==
    /\ Len(buf.cells) = buf.height
    /\ \A y \in 1..Len(buf.cells) : Len(buf.cells[y]) = buf.width

\* C7: in every reachable Renderer state next and prev have identical width
\* and height, and each grid has exactly height rows of exactly width cells.
C7_SameDimensions ==
    /\ next.width = prev.width
    /\ next.height = prev.height
    /\ GridOf(next)
    /\ GridOf(prev)

\* a frame was flushed and the buffers swapped after a resize to 2 x 2
C7_Witness ==
    /\ EndedOk
    /\ last.resized
    /\ next.width = 2 /\ next.height = 2
    /\ prev.width = 2 /\ prev.height = 2

(***************************************************************************)
(* Claims about KeyMap, checked under SpecKeys.                            *)
(***************************************************************************)
Bound(key) == key \in Keys(map)
ValueOf(key) == (CHOOSE b \in map : b.key = key).value

\* C8: when the map binds both Specific(code, m) and AllChars(m), code a
\* character key, get_action on an event with that code and modifier set m
\* returns the action of the Specific binding.
C8_SpecificFirst ==
    last.op = "get_action" =>
       LET code == last.event.code
           m == EventModifiers(last.event)
       IN  (code.t = "Char" /\ Bound(Specific(code, m)) /\ Bound(AllChars(m)))
              => last.ret = Some(ValueOf(Specific(code, m)))

\* both tiers match, with different actions, and the Specific one was returned
C8_Witness ==
    /\ last.op = "get_action"
    /\ last.event.code.t = "Char"
    /\ Bound(Specific(last.event.code, EventModifiers(last.event)))
    /\ Bound(AllChars(EventModifiers(last.event)))
    /\ ValueOf(Specific(last.event.code, EventModifiers(last.event)))
          # ValueOf(AllChars(EventModifiers(last.event)))
    /\ last.ret = Some(ValueOf(Specific(last.event.code, EventModifiers(last.event))))

\* the modifier set of an event, read off its flags
ExactMods(flags) ==
    [ctrl |-> "CONTROL" \in flags, alt |-> "ALT" \in flags, shift |-> "SHIFT" \in flags]

\* C9: when no Specific binding exists for the event, get_action returns the
\* action of AllChars(m') only if the code is a character key and m' is exactly
\* the event's ctrl/alt/shift set; for a non-character key, or when no AllChars
\* binding has that modifier set, it returns nothing.
C9_WildcardFallback ==
    last.op = "get_action" =>
       LET code == last.event.code
           m == ExactMods(last.event.modifiers)
       IN  ~Bound(Specific(code, m)) =>
              IF code.t = "Char" /\ Bound(AllChars(m))
              THEN last.ret = Some(ValueOf(AllChars(m)))
              ELSE last.ret = None

\* a character key with shift falls back to AllChars(shift) although
\* AllChars(no modifiers) is bound to another action
C9_Witness ==
    /\ last.op = "get_action"
    /\ last.event = KeyEvent(Char("a"), {"SHIFT"})
    /\ ~Bound(Specific(Char("a"), Modifiers_shift(Modifiers_default)))
    /\ Bound(AllChars(Modifiers_default))
    /\ Bound(AllChars(Modifiers_shift(Modifiers_default)))
    /\ ValueOf(AllChars(Modifiers_default))
          # ValueOf(AllChars(Modifiers_shift(Modifiers_default)))
    /\ last.ret = Some(ValueOf(AllChars(Modifiers_shift(Modifiers_default))))

\* the action lines of a legend: all but the closing empty line
ActionLines(lines) == SubSeq(lines, 1, Len(lines) - 1)

SpecificKeysOf(a) == {b.key : b \in {c \in map : c.value = a /\ c.key.kind = "Specific"}}

\* str_keys lists every Specific combination of action a once, and besides
\* them nothing but the wildcard placeholder
ListsSpecifics(str_keys, a) ==
    /\ \A key \in SpecificKeysOf(a) :
          Cardinality({i \in 1..Len(str_keys) : str_keys[i] = KeyCombinationText(key)}) = 1
    /\ \A i \in 1..Len(str_keys) :
          \/ str_keys[i] = "<char>"
          \/ \E key \in SpecificKeysOf(a) : str_keys[i] = KeyCombinationText(key)

\* C10: describe emits exactly one line for each distinct action bound in the
\* map, the line lists every Specific combination bound to the action joined
\* by " / ", and the lines appear in ascending order of the action.
C10_DescribeGroups ==
    last.op = "describe" =>
       LET lines == ActionLines(last.lines)
       IN  /\ \A a \in {b.value : b \in map} :
                 Cardinality({i \in 1..Len(lines) : lines[i].action = Some(a)}) = 1
           /\ \A i \in 1..Len(lines) :
                 /\ lines[i].action.some
                 /\ lines[i].action.v \in {b.value : b \in map}
                 /\ ListsSpecifics(lines[i].str_keys, lines[i].action.v)
                 /\ lines[i].text =
                       "    " \o Pad(Join(lines[i].str_keys, " / "), LegendWidth)
                          \o "  - " \o ActionText(lines[i].action.v)
           /\ \A i, j \in 1..Len(lines) :
                 i < j => lines[i].action.v < lines[j].action.v

\* the grouping of the spec: Enter and C-a bound to one action give one line
\* listing both, and another action has its own line after or before it
C10_Witness ==
    /\ last.op = "describe"
    /\ Len(last.lines) = 3
    /\ \E i \in 1..2 :
          /\ Len(last.lines[i].str_keys) = 2
          /\ {last.lines[i].str_keys[1], last.lines[i].str_keys[2]} = {"Enter", "C-a"}
          /\ last.lines[i].text \in
                {"    Enter / C-a        - " \o ActionText(last.lines[i].action.v),
                 "    C-a / Enter        - " \o ActionText(last.lines[i].action.v)}

\* the texts of a legend, line by line
TextOf(lines) == [i \in 1..Len(lines) |-> lines[i].text]

\* C11: for a given set of bindings describe produces the same text whatever
\* order the hash map iterator visits the bindings in: the text of this run
\* is the text of every other run over the same map.
C11_DescribeDeterministic ==
    last.op = "describe" =>
       \A order \in Orders(Keys(map)) :
          TextOf(describe(map, order)) = TextOf(last.lines)

\* a legend of a map in which one action has two combinations
C11_Witness ==
    /\ last.op = "describe"
    /\ \E i \in 1..Len(last.lines) : Len(last.lines[i].str_keys) = 2

\* the actions that have at least one AllChars binding
WildcardActions == {b.value : b \in {c \in map : c.key.kind = "AllChars"}}

Occurrences(str_keys, str) ==
    Cardinality({i \in 1..Len(str_keys) : str_keys[i] = str})

\* C12: the line of every action that has an AllChars binding contains the
\* placeholder <char> exactly once, whatever else is bound to the action and
\* in whatever order the bindings are visited.
C12_PlaceholderOnce ==
    last.op = "describe" =>
       \A i \in 1..Len(last.lines) :
          (last.lines[i].action.some /\ last.lines[i].action.v \in WildcardActions)
             => Occurrences(last.lines[i].str_keys, "<char>") = 1

\* a legend of a map in which an action has a wildcard and a Specific binding
C12_Witness ==
    /\ last.op = "describe"
    /\ \E a \in WildcardActions : SpecificKeysOf(a) # {}

(***************************************************************************)
(* Claims about ReadLine, checked under SpecEdit.  In the claims the       *)
(* cursor is a codepoint index: position k lies between the characters     *)
(* strval[k] and strval[k + 1] of the sequence.                            *)
(***************************************************************************)
\* this step is apply_action with the given action
Applied(action) == last'.op = "apply_action" /\ last'.action = action

\* the codepoint position the cursor of rl stands for
CursorOf(rl) == Min(rl.cursor, Len(rl.strval))

\* C13: the line editor never splits a multi-byte character: every action
\* completes without failure and leaves the cursor a codepoint index of the
\* text, between 0 and the number of characters.
C13_NeverSplits ==
    last.op = "apply_action" =>
       /\ ~aborted
       /\ line.cursor <= Len(line.strval)

\* an action applied to a text that holds a multi-byte character
C13_Witness ==
    /\ last.op = "apply_action"
    /\ \E i \in 1..Len(line.strval) : Utf8Len(line.strval[i]) > 1

\* C14: for any text and cursor c with 0 < c <= length, BackDeleteChar and
\* then InsertChar of the removed character give back the text and cursor c.
C14_RoundTrip ==
    (last.op = "apply_action" /\ ~aborted
        /\ 0 < line.cursor /\ line.cursor <= Len(line.strval)) =>
       LET removed == line.strval[line.cursor]
           deleted == apply_action(line, "BackDeleteChar", NoCharEvent)
           inserted == apply_action(deleted.rl, "InsertChar",
                                    KeyEvent(Char(removed), {}))
       IN  /\ ~deleted.panic
           /\ ~inserted.panic
           /\ inserted.rl.strval = line.strval
           /\ inserted.rl.cursor = line.cursor

\* a text with the cursor behind a character, from which the round trip starts
C14_Witness ==
    /\ last.op = "apply_action" /\ ~aborted
    /\ Len(line.strval) >= 2
    /\ 0 < line.cursor /\ line.cursor <= Len(line.strval)

\* the position left of c after the run of spaces immediately left of c
AfterSpacesLeft(str, c) ==
    CHOOSE p \in 0..c :
       /\ p = 0 \/ str[p] # " "
       /\ \A i \in (p + 1)..c : str[i] = " "

\* the start of the run of non-space characters that ends at position p
WordStart(str, p) ==
    CHOOSE t \in 0..p :
       /\ t = 0 \/ str[t] = " "
       /\ \A i \in (t + 1)..p : str[i] # " "

\* the LeftWord target of position c
LeftWordTarget(str, c) == WordStart(str, AfterSpacesLeft(str, c))

WordMotionText == <<"a", "b", " ", " ", "c", "d", " ", "e", "f">>

\* C15: LeftWord from cursor c > 0 moves the cursor to the start of the word
\* left of c (past the spaces immediately left of c), or to 0 when only
\* spaces lie to the left; at c = 0 it changes nothing.  For "ab  cd ef" from
\* 9 the results are 7, 4 and 0.
C15_LeftWord ==
    /\ left_word_offset([ReadLine_new EXCEPT !.strval = WordMotionText, !.cursor = 9])
          = [panic |-> FALSE, ret |-> Some(7)]
    /\ left_word_offset([ReadLine_new EXCEPT !.strval = WordMotionText, !.cursor = 7])
          = [panic |-> FALSE, ret |-> Some(4)]
    /\ left_word_offset([ReadLine_new EXCEPT !.strval = WordMotionText, !.cursor = 4])
          = [panic |-> FALSE, ret |-> Some(0)]
    /\ [][Applied("LeftWord") =>
            /\ ~aborted'
            /\ line'.strval = line.strval
            /\ line'.cursor =
                  IF line.cursor = 0 THEN 0
                  ELSE LeftWordTarget(line.strval, CursorOf(line))]_vars

\* LeftWord applied with the cursor behind a word
C15_Witness ==
    /\ last.op = "apply_action" /\ last.action = "LeftWord"
    /\ Len(line.strval) >= 2

\* the position right of c after the run of non-space characters from c
AfterWordRight(str, c) ==
    CHOOSE p \in c..Len(str) :
       /\ p = Len(str) \/ str[p + 1] = " "
       /\ \A i \in (c + 1)..p : str[i] # " "

\* the position right of p after the run of spaces from p
AfterSpacesRight(str, p) ==
    CHOOSE t \in p..Len(str) :
       /\ t = Len(str) \/ str[t + 1] # " "
       /\ \A i \in (p + 1)..t : str[i] = " "

RightWordTarget(str, c) == AfterSpacesRight(str, AfterWordRight(str, c))

\* C16: RightWord from cursor c < length moves the cursor past the run of
\* non-space characters starting at c and then past the run of spaces that
\* follows; at c = length it changes nothing.
C16_RightWord ==
    [][(Applied("RightWord") /\ line.cursor <= Len(line.strval)) =>
          /\ ~aborted'
          /\ line'.strval = line.strval
          /\ line'.cursor =
                IF line.cursor = Len(line.strval) THEN line.cursor
                ELSE RightWordTarget(line.strval, line.cursor)]_vars

\* RightWord has moved the cursor over a word and the spaces after it, onto
\* the first character of the next word, in a text with a multi-byte character
C16_Witness ==
    /\ last.op = "apply_action" /\ last.action = "RightWord"
    /\ 1 < line.cursor /\ line.cursor < Len(line.strval)
    /\ line.strval[line.cursor] = " "
    /\ line.strval[line.cursor + 1] # " "
    /\ \E i \in 1..Len(line.strval) : Utf8Len(line.strval[i]) > 1

\* C17: DelBackWord removes exactly the codepoints between the LeftWord
\* target t of c and c and sets the cursor to t; the text before t and from c
\* on is unchanged; at c = 0 nothing changes.
C17_DelBackWord ==
    [][Applied("DelBackWord") =>
          LET c == CursorOf(line)
              t == LeftWordTarget(line.strval, c)
          IN  /\ ~aborted'
              /\ IF line.cursor = 0
                 THEN line' = line
                 ELSE /\ line'.strval = SubSeq(line.strval, 1, t)
                                           \o SubSeq(line.strval, c + 1, Len(line.strval))
                      /\ line'.cursor = t]_vars

\* DelBackWord applied with the cursor behind a word
C17_Witness ==
    /\ last.op = "apply_action" /\ last.action = "DelBackWord"
    /\ Len(line.strval) >= 1

\* C18: InsertChar with a character key event inserts the character at the
\* cursor and advances the cursor by one; with a key event that carries no
\* character it changes neither text nor cursor.
C18_InsertChar ==
    [][Applied("InsertChar") =>
          LET c == CursorOf(line)
          IN  /\ ~aborted'
              /\ IF last'.event.code.t = "Char"
                 THEN /\ line'.strval = SubSeq(line.strval, 1, c)
                                           \o <<last'.event.code.ch>>
                                           \o SubSeq(line.strval, c + 1, Len(line.strval))
                      /\ line'.cursor = line.cursor + 1
                 ELSE line' = line]_vars

\* InsertChar applied to a text that is not empty
C18_Witness ==
    /\ last.op = "apply_action" /\ last.action = "InsertChar"
    /\ last.event.code.t = "Char"
    /\ Len(line.strval) >= 2

(***************************************************************************)
(* Claims about the terminal session, checked under SpecRun.               *)
(***************************************************************************)
\* the terminal is as it was before term_on
Restored == ~session.raw /\ ~session.hidden /\ session.area = "none"

\* C19: once term_on has enabled raw mode the terminal is restored (raw mode
\* disabled, cursor shown, alternate screen left or bottom region cleared)
\* before the session ends, on every exit path on which run returns: a quit
\* action, an input-stream error, a backend error during a redraw, a backend
\* failure partway through term_on or term_off.
C19_TerminalRestored ==
    (session.pc = "exited" /\ ~aborted) => Restored

\* run returned after term_on had enabled raw mode
C19_Witness ==
    /\ session.pc = "exited" /\ ~aborted
    /\ last.op = "run_term_off" /\ last.fail = "none"
    /\ session.r = "err"
    /\ Restored

(***************************************************************************)
(* Claims about the draw calls, checked under SpecDraw.                    *)
(***************************************************************************)
\* C20: draw calls are infallible: for any coordinates, including x equal to
\* or beyond the buffer width and y beyond the height, and any character of
\* display width 0, 1 or 2, draw_str returns a width without failing or
\* aborting, and the width is at most the room right of x.
C20_DrawInfallible ==
    last.op = "draw_str" =>
       /\ ~aborted
       /\ last.w >= 0
       /\ last.x + last.w <= next.width \/ last.w = 0

\* a draw call beyond the edge of the buffer that returned, clipped to nothing
C20_Witness ==
    /\ last.op = "draw_str" /\ ~aborted
    /\ last.x >= next.width
    /\ last.w = 0

\* the column at which the i-th character of s starts when s is laid out
\* from column x
RECURSIVE ColOf(_, _, _)
ColOf(s, i, x) == IF i <= 1 THEN x ELSE ColOf(s, i - 1, x) + display_width(s[i - 1])

\* the length of the longest prefix of s all of whose characters fit in a
\* row of the given width when laid out from column x
FitCount(s, x, width) ==
    CHOOSE k \in 0..Len(s) :
       /\ \A i \in 1..k : ColOf(s, i + 1, x) <= width
       /\ k < Len(s) => ColOf(s, k + 2, x) > width

\* the cell the claim expects at column col (0-based) of the row drawn to
DrawnCell(before, s, x, k, style, col) ==
    IF \E i \in 1..k : ColOf(s, i, x) <= col /\ col < ColOf(s, i + 1, x)
    THEN LET i == CHOOSE i \in 1..k : ColOf(s, i, x) <= col /\ col < ColOf(s, i + 1, x)
         IN  IF col = ColOf(s, i, x) THEN CellContent_new(s[i], style)
             ELSE WideExtension
    ELSE before

\* C21: draw_str writes the characters of s left to right from (x, y), stops
\* at the first character that does not fit and writes none of the later
\* ones; it returns the sum of the display widths of the characters written,
\* and the cells outside the written columns of row y are unchanged.
C21_DrawStrClips ==
    [][(last'.op = "draw_str" /\ draws' = draws + 1) =>
          LET s == last'.s
              x == last'.x
              y == last'.y
              k == IF y < next.height THEN FitCount(s, x, next.width) ELSE 0
          IN  /\ ~aborted'
              /\ last'.w = ColOf(s, k + 1, x) - x
              /\ prev' = prev
              /\ next'.width = next.width /\ next'.height = next.height
              /\ Len(next'.cells) = Len(next.cells)
              /\ \A row \in 1..Len(next.cells) :
                    /\ Len(next'.cells[row]) = Len(next.cells[row])
                    /\ \A col \in 1..Len(next.cells[row]) :
                          next'.cells[row][col] =
                             IF row = y + 1
                             THEN DrawnCell(next.cells[row][col], s, x, k,
                                            last'.style, col - 1)
                             ELSE next.cells[row][col]]_vars

\* a draw call that stopped at a wide character that did not fit, before a
\* narrow one that would have
C21_Witness ==
    /\ last.op = "draw_str" /\ ~aborted
    /\ last.s = <<"W", "a">>
    /\ last.x + 1 = next.width
    /\ last.y < next.height
    /\ last.w = 0

\* the control loop is running: run is inside event_loop
InLoop == session.pc \in {"redraw", "wait"}

\* this step is a key event that the maps of the current mode resolve to Quit
QuitResolved ==
    /\ last'.op = "key"
    /\ \/ /\ session.mode = "Main"
          /\ get_action(MainModeMap, last'.event) = Some("Quit")
       \/ /\ session.mode = "Edit"
          /\ ~get_action(DefKeyMap, last'.event).some
          /\ get_action(EditModeMap, last'.event) = Some("Quit")

\* leave is set by a resolved quit action only
LeaveOnlyByQuit == (session'.leave /\ ~session.leave) => QuitResolved

\* C22 as claimed: the control loop returns only when a quit action has been
\* resolved or the input-event source reports an error; nothing else (a tick,
\* an unbound key, a mouse or resize event, the end of the stream, a backend
\* error while redrawing) ends it.
C22_OnlyQuitOrStreamError ==
    [][/\ (InLoop /\ session'.pc = "term_off") =>
             \/ session.leave
             \/ last'.op = "stream_error"
       /\ LeaveOnlyByQuit]_vars

\* C22 as the code has it: the control loop returns only when a quit action
\* has been resolved, when the input-event source reports an error, or when
\* a redraw returns a backend error.
C22_LoopReturns ==
    [][/\ (InLoop /\ session'.pc = "term_off") =>
             \/ session.leave
             \/ last'.op = "stream_error"
             \/ last'.op = "redraw" /\ last'.failed
       /\ LeaveOnlyByQuit]_vars

\* the loop has returned after a resolved quit action and the redraw that
\* follows it
C22_Witness ==
    /\ session.pc = "term_off"
    /\ session.leave
    /\ session.r = "ok"
    /\ last.op = "redraw" /\ ~last.failed

(***************************************************************************)
(* Claims about end(), checked under Spec.  After a successful end() the   *)
(* buffers are swapped: prev is the buffer that was flushed, next the      *)
(* baseline it was compared with; last.full is full_refresh as end() found *)
(* it.                                                                     *)
(***************************************************************************)
IsMoveOrPrint(cmd) == cmd.op \in {"MoveTo", "Print"}

\* the cursor moves and prints of a command stream, without the style changes
MovesAndPrints(cmds) == SelectSeq(cmds, IsMoveOrPrint)

\* row y (1-based) of the flushed buffer equals the row of the baseline and
\* no full refresh was due
Unchanged(y) == prev.cells[y] = next.cells[y] /\ ~last.full

RECURSIVE PrintsOf(_)
PrintsOf(chars) ==
    IF Len(chars) = 0 THEN <<>> ELSE <<PrintCmd(Head(chars))>> \o PrintsOf(Tail(chars))

\* what the claim expects for the rows from y on
RECURSIVE ExpectedRows(_)
ExpectedRows(y) ==
    IF y > prev.height THEN <<>>
    ELSE (IF Unchanged(y) THEN <<>>
          ELSE <<MoveTo(0, top_left(R)[2] + (y - 1))>>
                  \o PrintsOf(ContentChars(prev.cells[y])))
            \o ExpectedRows(y + 1)

\* C23: during end() a row is skipped exactly when it is identical in next
\* and prev and full_refresh is false; a skipped row emits no command, every
\* other row emits a cursor move to column 0 of the row (offset by the top
\* row of the region) followed by one print per Content cell, left to right.
C23_RowDiff ==
    EndedOk =>
       /\ MovesAndPrints(OutBody) = ExpectedRows(1)
       /\ (\A y \in 1..prev.height : Unchanged(y)) => OutBody = <<>>

\* a frame of two rows was flushed of which one was skipped and the other,
\* holding a wide character, was repainted
C23_Witness ==
    /\ EndedOk
    /\ prev.height = 2
    /\ \E y \in 1..2 : Unchanged(y)
    /\ \E y \in 1..2 :
          /\ ~Unchanged(y)
          /\ \E x \in 1..prev.width : IsExt(prev.cells[y][x])

\* this step is a call of end()
EndStep == phase = "frame" /\ phase' = "on" /\ last'.op = "end"

\* C24: after a successful end() full_refresh is false, prev holds exactly
\* the buffer (cells and cursor) that was just flushed and next holds the
\* former prev; when end() fails with a backend error the buffers are not
\* swapped and full_refresh keeps its value.
C24_EndSwaps ==
    [][EndStep =>
          IF last'.ok
          THEN /\ ~full_refresh'
               /\ prev' = next
               /\ next' = prev
          ELSE /\ ~aborted'
               /\ next' = next
               /\ prev' = prev
               /\ full_refresh' = full_refresh]_vars

\* a frame with content and a visible cursor was flushed while a full
\* refresh was due, and is now the baseline
C24_Witness ==
    /\ EndedOk
    /\ last.full
    /\ ~full_refresh
    /\ prev.cursor.some
    /\ prev.cells # next.cells

\* every cell of buf is a blank default-styled Content cell
AllBlank(buf) ==
    /\ GridOf(buf)
    /\ \A y \in 1..Len(buf.cells) : \A x \in 1..Len(buf.cells[y]) : buf.cells[y][x] = Blank

\* C25: after begin() every cell of next is a blank default-styled Content
\* cell and the recorded cursor is absent, whatever was drawn in earlier
\* frames and whatever resizes occurred; so a frame flushed right after
\* begin() shows nothing of earlier frames and hides the cursor.
C25_BeginClears ==
    [][/\ (phase = "on" /\ last'.op = "begin") =>
             /\ ~aborted'
             /\ AllBlank(next')
             /\ next'.cursor = None
       /\ (last.op = "begin" /\ EndStep /\ last'.ok) =>
             /\ AllBlank(prev')
             /\ prev'.cursor = None
             /\ out'[Len(out')] = HideCmd]_vars

\* begin() after a frame with content and a visible cursor was flushed
C25_Witness ==
    /\ last.op = "begin" /\ ~aborted
    /\ prev.cursor.some
    /\ \E y \in 1..prev.height : \E x \in 1..prev.width : prev.cells[y][x] # Blank
    /\ ~full_refresh

\* C26: in BottomScreen mode, after term_on and after every resize event,
\* both buffers have height min(min_lines, terminal_height) and the top row
\* of the region plus that height never exceeds terminal_height, so every
\* row repaint emitted by end() targets a row inside the terminal.
C26_BottomRegionFits ==
    (config.mode = "BottomScreen" /\ phase # "created" /\ ~aborted) =>
       /\ next.height = Min(config.lines, term_size[2])
       /\ prev.height = Min(config.lines, term_size[2])
       /\ top_left(R)[2] + next.height <= term_size[2]
       /\ EndedOk =>
             \A i \in 1..Len(OutBody) :
                OutBody[i].op = "MoveTo" =>
                   /\ OutBody[i].x = 0
                   /\ OutBody[i].y >= top_left(R)[2]
                   /\ OutBody[i].y < term_size[2]

\* a bottom region of one row anchored on the second row of the terminal,
\* repainted after a resize event
C26_Witness ==
    /\ config.mode = "BottomScreen" /\ ~aborted
    /\ EndedOk /\ last.resized
    /\ term_size[2] = 2
    /\ top_left(R)[2] = 1
    /\ \E i \in 1..Len(OutBody) : OutBody[i] = MoveTo(0, 1)

(***************************************************************************)
(* Claims about the anchor of the bottom region, checked under SpecAnchor. *)
(***************************************************************************)
\* the recorded anchor row lies below old_height - min(min_lines, old_height),
\* so that on_resize translates it
AnchorMoves ==
    /\ config.mode = "BottomScreen" /\ config.pos.some
    /\ config.pos.v[2] < term_size[2]
    /\ config.pos.v[2] > term_size[2] - Min(config.lines, term_size[2])

\* C27: on a resize event in BottomScreen mode the translation of the
\* recorded anchor row by the height delta, anchor + new_height - old_height,
\* never leaves the range of a 16-bit unsigned row number: it neither goes
\* below 0 nor wraps, whatever the heights, min_lines and the anchor row
\* recorded inside the old terminal are.
C27_AnchorInRange ==
    [][(phase = "on" /\ last'.op = "event" /\ AnchorMoves) =>
          /\ ~aborted'
          /\ config'.pos.some
          /\ config'.pos.v[2] = config.pos.v[2] + term_size'[2] - term_size[2]
          /\ config'.pos.v[2] >= 0 /\ config'.pos.v[2] < U16]_vars

\* a resize event has translated the anchor of a bottom region to another row
C27_Witness ==
    /\ last.op = "event" /\ ~aborted
    /\ config.mode = "BottomScreen" /\ config.pos.some
    /\ config.pos.v[2] = 2
    /\ term_size[2] = 3
    /\ config.lines = 2

\* the actions that only move the cursor
CursorMovers ==
    {"LeftChar", "RightChar", "LeftWord", "RightWord", "GotoLineStart",
     "GotoLineEnd", "Complete"}

\* C28: after any sequence of editor actions on a new ReadLine the cursor
\* lies between 0 and the number of characters of the text; LeftChar at 0
\* and RightChar at the end leave the cursor where it is, and the actions
\* that move the cursor leave the text as it is.
C28_CursorInRange ==
    [][last'.op = "apply_action" =>
          /\ ~aborted'
          /\ line'.cursor \in 0..Len(line'.strval)
          /\ (last'.action = "LeftChar" /\ line.cursor = 0) => line'.cursor = 0
          /\ (last'.action = "RightChar" /\ line.cursor = Len(line.strval))
                => line'.cursor = line.cursor
          /\ last'.action \in CursorMovers => line'.strval = line.strval]_vars

\* RightChar applied with the cursor at the end of a text that is not empty
C28_Witness ==
    /\ last.op = "apply_action" /\ last.action = "RightChar"
    /\ Len(line.strval) >= 1
    /\ line.cursor >= Len(line.strval)

====
